---- MODULE Spec2Model ----
(***************************************************************************)
(* The moderation glue of the post form: FileUploader.onDrop (the current  *)
(* component and its earlier variant) and PostForm.handleSubmit, run as    *)
(* async handlers on one browser event loop against four external          *)
(* services: file storage, the document database, the image-inference API  *)
(* and the text-moderation API.  Every await is one step of a handler      *)
(* invocation; the service's answer is chosen when the step is taken.      *)
(***************************************************************************)
EXTENDS Integers, Sequences, FiniteSets, TLC

\* ------------------------------------------------------------------ bounds
\* Handler invocations (drops and submits together) in one behaviour.
MaxRuns == 2
\* User records in the user collection.
NumUsers == 2

\* --------------------------------------------------------------- constants
\* "confidence * 100 > 50": confidences are kept in percent points, so the
\* probability c/100 of the API is the integer c and confidence * 100 is c.
Threshold == 50

RunIds == 1..MaxRuns
Users == 1..NumUsers
\* A missing string prop or id (undefined in the source).
Undefined == 0

\* response.data.predictions: missing, empty, or a list whose first element decides.
NoPredictions == <<-1>>
PredictionLists ==
  {NoPredictions, <<>>, <<Threshold>>, <<Threshold + 1>>,
   <<Threshold - 1, Threshold + 1>>}

\* response.data.drug.matches by the type of each match; NoMatches is an
\* answer that carries no drug.matches list.
NoMatches == <<"(no drug.matches)">>
MatchLists == {NoMatches, <<>>, <<"link">>, <<"link", "drug">>}

\* URLs: the blob URL of a local file, or the storage view URL of a file id.
NoUrl == [scheme |-> "none", of |-> 0]

VARIABLES
  variant,     \* which FileUploader is built: "current" or "earlier"
  user,        \* useUserContext().user.$id: the logged-in user
  post,        \* PostForm prop post (NoPost when absent)
  action,      \* PostForm prop action
  userIdProp,  \* FileUploader prop userId as its parent passes it
  file,        \* FileUploader state file
  fileUrl,     \* FileUploader state fileUrl
  formFile,    \* the form's "file" field, written through fieldChange
  storage,     \* ids of the files in the storage bucket
  userFlag,    \* user collection: id -> flag
  imageDocs,   \* image (post) collection: id -> document
  runs         \* handler invocations: locals, position, requests issued

vars == <<variant, user, post, action, userIdProp, file, fileUrl, formFile,
          storage, userFlag, imageDocs, runs>>

props == <<variant, user, post, action, userIdProp>>
ui == <<file, fileUrl, formFile>>
db == <<storage, userFlag, imageDocs>>

\* Ids the services gave out before the form was opened lie above the run ids.
OldId == MaxRuns + 1
OldUrl == [scheme |-> "storage", of |-> OldId]
NoPost == [id |-> 0, imageId |-> 0, imageUrl |-> NoUrl]
\* An existing post, which the form edits when it is handed over as a prop.
OldPost == [id |-> OldId, imageId |-> OldId, imageUrl |-> OldUrl]

IdleRun ==
  [kind |-> "idle", pc |-> "idle", status |-> "none",
   userId |-> Undefined, file |-> 0, fileId |-> 0, fileUrl |-> NoUrl,
   docId |-> 0, caption |-> "", flagged |-> FALSE, log |-> <<>>]

\* ----------------------------------------------------------------- helpers
\* One request, console line, toast or navigation of a handler, in the order
\* it was issued.
\*   op  : the call
\*   arg : what it addresses or carries (a record id, a URL, a caption, ...)
\*   val : the value written or returned
\*   res : how the call ended
Ev(op, arg, val, res) == [op |-> op, arg |-> arg, val |-> val, res |-> res]

\* ID.unique() / "unique()": the service stores the object under an id no
\* other object has; the model names it after the invocation that asked.
UniqueId(i) == i

\* convertFileToUrl(file): the blob URL of a local file.
convertFileToUrl(f) == [scheme |-> "blob", of |-> f]

\* `${APPWRITE_ENDPOINT}/storage/buckets/${STORAGE_BUCKET_ID}/files/${fileId}/view?...`
StorageViewUrl(fileId) == [scheme |-> "storage", of |-> fileId]

\* The answers of an awaited call that either resolves or rejects.
Outcomes == {"ok", "fail"}

Started(i) == runs[i].kind # "idle"
Finished(i) == runs[i].pc = "done"

\* A handler invocation is taken from the lowest unused slot.
NextSlot(i) == runs[i].kind = "idle" /\ \A j \in RunIds : j < i => Started(j)

None == [x \in {} |-> 0]

\* runs with invocation i moved to pc, its locals changed by `with` and the
\* events `evs` appended to its log.  A handler that reaches its end returns.
Advance(i, pc, with, evs) ==
  [runs EXCEPT ![i] =
     [f \in DOMAIN runs[i] |->
        IF f = "pc" THEN pc
        ELSE IF f = "log" THEN runs[i].log \o evs
        ELSE IF f \in DOMAIN with THEN with[f]
        ELSE IF f = "status" /\ pc = "done" THEN "returned"
        ELSE runs[i][f]]]

\* console.error(...) in a catch block, named after the call that failed.
ConsoleError(what) == Ev("console.error", what, 0, "logged")
\* toast({ title, ... })
Toast(title) == Ev("toast", title, 0, "shown")

\* ------------------------------------------- FileUploader.onDrop (current)
\* A threshold test that also flags a confidence of exactly 50%.
ShouldFlagAtThreshold(predictions) ==
  /\ predictions # NoPredictions
  /\ Len(predictions) > 0
  /\ predictions[1] >= Threshold

\* if (predictions && predictions.length > 0) { if (confidence * 100 > 50) ... }
ShouldFlag(predictions) ==
  /\ predictions # NoPredictions
  /\ Len(predictions) > 0
  /\ predictions[1] > Threshold

\* The inference request given the component's preview URL (the outer fileUrl).
InferImagePreview(i) == fileUrl

\* params.image of the inference request: the const fileUrl of this invocation.
InferImage(i) == runs[i].fileUrl

\* The image id read from a place all invocations share: the document of
\* the drop that started last.
FlagImageArgShared(i) ==
  runs[CHOOSE j \in RunIds : runs[j].kind = "drop" /\
         \A m \in RunIds : runs[m].kind = "drop" => m <= j].docId

\* A call that passes the test's negation as the flag value.
FlagValueArgCleared == FALSE

\* updateAppwriteFlags(userId, imageDocument.$id, true): the arguments.
FlagUserArg(i) == runs[i].userId
FlagImageArg(i) == runs[i].docId
FlagValueArg == TRUE

\* Lines 30-33, up to the first await: component state and the form field.
DropStart(i) ==
  /\ variant = "current"
  /\ NextSlot(i)
  /\ file' = <<i>>
  /\ formFile' = <<i>>
  /\ fileUrl' = convertFileToUrl(i)
  /\ runs' = [runs EXCEPT ![i] =
       [IdleRun EXCEPT !.kind = "drop", !.pc = "createFile", !.status = "running",
                       !.userId = userIdProp, !.file = i]]
  /\ UNCHANGED <<props, db>>

\* await storage.createFile(...): lines 45-52, or the catch of line 89.
DropCreateFile(i) ==
  /\ runs[i].kind = "drop" /\ runs[i].pc = "createFile"
  /\ \E out \in Outcomes :
       IF out = "ok"
       THEN LET fid == UniqueId(i) IN
            /\ storage' = storage \cup {fid}
            /\ runs' = Advance(i, "createDocument",
                 [fileId |-> fid, fileUrl |-> StorageViewUrl(fid)],
                 <<Ev("createFile", runs[i].file, fid, "ok")>>)
       ELSE /\ storage' = storage
            /\ runs' = Advance(i, "done", None,
                 <<Ev("createFile", runs[i].file, 0, "fail"),
                   ConsoleError("createFile")>>)
  /\ UNCHANGED <<props, ui, userFlag, imageDocs>>

\* await databases.createDocument(...): lines 55-69.
DropCreateDocument(i) ==
  /\ runs[i].kind = "drop" /\ runs[i].pc = "createDocument"
  /\ LET doc == [imageId |-> runs[i].fileId, imageUrl |-> runs[i].fileUrl,
                 flag |-> FALSE, creator |-> runs[i].userId]
     IN \E out \in Outcomes :
       IF out = "ok"
       THEN LET did == UniqueId(i) IN
            /\ imageDocs' = [d \in DOMAIN imageDocs \cup {did} |->
                 IF d = did THEN doc ELSE imageDocs[d]]
            /\ runs' = Advance(i, "infer", [docId |-> did],
                 <<Ev("createDocument", did, doc, "ok")>>)
       ELSE /\ imageDocs' = imageDocs
            /\ runs' = Advance(i, "done", None,
                 <<Ev("createDocument", 0, doc, "fail"),
                   ConsoleError("createDocument")>>)
  /\ UNCHANGED <<props, ui, storage, userFlag>>

\* await axios.post(ML_API_URL, ...) and the threshold test: lines 72-88.
DropInfer(i) ==
  /\ runs[i].kind = "drop" /\ runs[i].pc = "infer"
  /\ \/ \E predictions \in PredictionLists :
          runs' = Advance(i, IF ShouldFlag(predictions) THEN "updateUser" ELSE "done",
                    None, <<Ev("infer", InferImage(i), predictions, "ok")>>)
     \/ runs' = Advance(i, "done", None,
                    <<Ev("infer", InferImage(i), <<>>, "fail"),
                      ConsoleError("infer")>>)
  /\ UNCHANGED <<props, ui, db>>

\* updateAppwriteFlags, first await (lines 116-121).  The SDK rejects a call
\* whose documentId is undefined before any request is sent; the catch of
\* line 130 takes that and every failed request, and onDrop then returns.
DropUpdateUser(i) ==
  /\ runs[i].kind = "drop" /\ runs[i].pc = "updateUser"
  /\ LET uid == FlagUserArg(i) IN
     IF uid = Undefined
     THEN /\ userFlag' = userFlag
          /\ runs' = Advance(i, "done", None,
               <<Ev("updateUser", uid, FlagValueArg, "throw"),
                 ConsoleError("updateUser")>>)
     ELSE \E out \in Outcomes :
          IF out = "ok"
          THEN /\ userFlag' = [userFlag EXCEPT ![uid] = FlagValueArg]
               /\ runs' = Advance(i, "updateImage", None,
                    <<Ev("updateUser", uid, FlagValueArg, "ok")>>)
          ELSE /\ userFlag' = userFlag
               /\ runs' = Advance(i, "done", None,
                    <<Ev("updateUser", uid, FlagValueArg, "fail"),
                      ConsoleError("updateUser")>>)
  /\ UNCHANGED <<props, ui, storage, imageDocs>>

\* updateAppwriteFlags, second await (lines 124-129).
DropUpdateImage(i) ==
  /\ runs[i].kind = "drop" /\ runs[i].pc = "updateImage"
  /\ LET did == FlagImageArg(i) IN
     \E out \in Outcomes :
       IF out = "ok" /\ did \in DOMAIN imageDocs
       THEN /\ imageDocs' = [imageDocs EXCEPT ![did].flag = FlagValueArg]
            /\ runs' = Advance(i, "done", None,
                 <<Ev("updateImage", did, FlagValueArg, "ok")>>)
       ELSE /\ imageDocs' = imageDocs
            /\ runs' = Advance(i, "done", None,
                 <<Ev("updateImage", did, FlagValueArg, "fail"),
                   ConsoleError("updateImage")>>)
  /\ UNCHANGED <<props, ui, storage, userFlag>>

\* ------------------------------------ FileUploader.onDrop (earlier variant)
\* Lines 29-32 of the earlier variant: the same state changes before the try.
OldDropStart(i) ==
  /\ variant = "earlier"
  /\ NextSlot(i)
  /\ file' = <<i>>
  /\ formFile' = <<i>>
  /\ fileUrl' = convertFileToUrl(i)
  /\ runs' = [runs EXCEPT ![i] =
       [IdleRun EXCEPT !.kind = "oldDrop", !.pc = "createFile",
                       !.status = "running", !.file = i]]
  /\ UNCHANGED <<props, db>>

\* await storage.createFile(...): lines 41-48, or the catch of line 68.
OldDropCreateFile(i) ==
  /\ runs[i].kind = "oldDrop" /\ runs[i].pc = "createFile"
  /\ \E out \in Outcomes :
       IF out = "ok"
       THEN LET fid == UniqueId(i) IN
            /\ storage' = storage \cup {fid}
            /\ runs' = Advance(i, "infer",
                 [fileId |-> fid, fileUrl |-> StorageViewUrl(fid)],
                 <<Ev("createFile", runs[i].file, fid, "ok")>>)
       ELSE /\ storage' = storage
            /\ runs' = Advance(i, "done", None,
                 <<Ev("createFile", runs[i].file, 0, "fail"),
                   ConsoleError("createFile")>>)
  /\ UNCHANGED <<props, ui, userFlag, imageDocs>>

\* await axios.post(ML_API_URL, ...) and the threshold test: lines 51-67.
OldDropInfer(i) ==
  /\ runs[i].kind = "oldDrop" /\ runs[i].pc = "infer"
  /\ \/ \E predictions \in PredictionLists :
          runs' = Advance(i, IF ShouldFlag(predictions) THEN "listUsers" ELSE "done",
                    None, <<Ev("infer", InferImage(i), predictions, "ok")>>)
     \/ runs' = Advance(i, "done", None,
                    <<Ev("infer", InferImage(i), <<>>, "fail"),
                      ConsoleError("infer")>>)
  /\ UNCHANGED <<props, ui, db>>

\* updateAppwriteFlags(true) of the earlier variant: flagValue.
OldFlagValueArg == TRUE

\* Query.equal('flag', !flagValue): the documents the list call matches.
OldMatchingUsers == {u \in Users : userFlag[u] = ~OldFlagValueArg}
OldMatchingImages == {d \in DOMAIN imageDocs : imageDocs[d].flag = ~OldFlagValueArg}

\* await databases.listDocuments(USER_COLLECTION_ID, ...): lines 95-100.  The
\* order of the documents is the database's: documents[0] is any match.
OldListUsers(i) ==
  /\ runs[i].kind = "oldDrop" /\ runs[i].pc = "listUsers"
  /\ \/ /\ OldMatchingUsers = {}
        /\ runs' = Advance(i, "listImages", None,
             <<Ev("listUsers", ~OldFlagValueArg, 0, "ok")>>)
     \/ \E u \in OldMatchingUsers :
          runs' = Advance(i, "updateUser", [userId |-> u],
             <<Ev("listUsers", ~OldFlagValueArg, u, "ok")>>)
     \/ runs' = Advance(i, "done", None,
             <<Ev("listUsers", ~OldFlagValueArg, 0, "fail"),
               ConsoleError("listUsers")>>)
  /\ UNCHANGED <<props, ui, db>>

\* await databases.updateDocument(USER_COLLECTION_ID, userId, ...): lines 103-108.
OldUpdateUser(i) ==
  /\ runs[i].kind = "oldDrop" /\ runs[i].pc = "updateUser"
  /\ LET uid == runs[i].userId IN
     \E out \in Outcomes :
       IF out = "ok"
       THEN /\ userFlag' = [userFlag EXCEPT ![uid] = OldFlagValueArg]
            /\ runs' = Advance(i, "listImages", None,
                 <<Ev("updateUser", uid, OldFlagValueArg, "ok")>>)
       ELSE /\ userFlag' = userFlag
            /\ runs' = Advance(i, "done", None,
                 <<Ev("updateUser", uid, OldFlagValueArg, "fail"),
                   ConsoleError("updateUser")>>)
  /\ UNCHANGED <<props, ui, storage, imageDocs>>

\* await databases.listDocuments(IMAGE_COLLECTION_ID, ...): lines 112-117.
OldListImages(i) ==
  /\ runs[i].kind = "oldDrop" /\ runs[i].pc = "listImages"
  /\ \/ /\ OldMatchingImages = {}
        /\ runs' = Advance(i, "done", None,
             <<Ev("listImages", ~OldFlagValueArg, 0, "ok")>>)
     \/ \E d \in OldMatchingImages :
          runs' = Advance(i, "updateImage", [docId |-> d],
             <<Ev("listImages", ~OldFlagValueArg, d, "ok")>>)
     \/ runs' = Advance(i, "done", None,
             <<Ev("listImages", ~OldFlagValueArg, 0, "fail"),
               ConsoleError("listImages")>>)
  /\ UNCHANGED <<props, ui, db>>

\* await databases.updateDocument(IMAGE_COLLECTION_ID, imageId, ...): lines 120-125.
OldUpdateImage(i) ==
  /\ runs[i].kind = "oldDrop" /\ runs[i].pc = "updateImage"
  /\ LET did == runs[i].docId IN
     \E out \in Outcomes :
       IF out = "ok"
       THEN /\ imageDocs' = [imageDocs EXCEPT ![did].flag = OldFlagValueArg]
            /\ runs' = Advance(i, "done", None,
                 <<Ev("updateImage", did, OldFlagValueArg, "ok")>>)
       ELSE /\ imageDocs' = imageDocs
            /\ runs' = Advance(i, "done", None,
                 <<Ev("updateImage", did, OldFlagValueArg, "fail"),
                   ConsoleError("updateImage")>>)
  /\ UNCHANGED <<props, ui, storage, userFlag>>

\* --------------------------------------------------- PostForm.handleSubmit
\* The caption typed into the form.
Captions == {"a caption"}

\* drug.matches.some((match) => match.type === "drug")
Flagged(matches) == \E k \in 1..Len(matches) : matches[k] = "drug"

\* A handler that returns after the flag write of a flagged caption.
AfterFlagGated(i) ==
  IF runs[i].flagged THEN "done"
  ELSE IF runs[i].file # 0 THEN "uploadFile" ELSE "post"

\* if (value.file && value.file.length > 0): the step after the flag write.
AfterFlag(i) == IF runs[i].file # 0 THEN "uploadFile" ELSE "post"

\* The step after checkForProhibitedContent has returned `flagged`.
AfterCheck(i, flagged) == IF flagged THEN "updateUserFlag" ELSE AfterFlag(i)

\* form.handleSubmit(handleSubmit): the validated form value, up to the
\* request of checkForProhibitedContent (lines 90-94, 135-144).
SubmitStart(i) ==
  /\ NextSlot(i)
  /\ \E c \in Captions :
       runs' = [runs EXCEPT ![i] =
         [IdleRun EXCEPT !.kind = "submit", !.pc = "check", !.status = "running",
                         !.caption = c,
                         !.file = IF formFile = <<>> THEN 0 ELSE formFile[1]]]
  /\ UNCHANGED <<props, ui, db>>

\* A scan of the form's default caption instead of the submitted one.
CheckTextDefault(i) == ""

\* The text sent to the moderation API: data.append("text", caption).
CheckText(i) == runs[i].caption

\* A catch block that treats a failed scan as a match.
OnCheckFailureAssumeTrue == TRUE

\* return false; // Assume no prohibited content if an error occurs
OnCheckFailure == FALSE

\* checkForProhibitedContent, from the answer on (lines 144-154): a rejected
\* request and an answer without drug.matches both end in the catch.
SubmitCheck(i) ==
  /\ runs[i].kind = "submit" /\ runs[i].pc = "check"
  /\ \/ \E matches \in MatchLists :
          IF matches = NoMatches
          THEN runs' = Advance(i, AfterCheck(i, OnCheckFailure),
                 [flagged |-> OnCheckFailure],
                 <<Ev("check", CheckText(i), matches, "ok"),
                   Toast("Content check failed")>>)
          ELSE runs' = Advance(i, AfterCheck(i, Flagged(matches)),
                 [flagged |-> Flagged(matches)],
                 <<Ev("check", CheckText(i), matches, "ok")>>)
     \/ runs' = Advance(i, AfterCheck(i, OnCheckFailure),
                 [flagged |-> OnCheckFailure],
                 <<Ev("check", CheckText(i), <<>>, "fail"),
                   Toast("Content check failed")>>)
  /\ UNCHANGED <<props, ui, db>>

\* updateUserFlag without its try/catch: a failed write leaves handleSubmit.
SubmitUpdateUserFlagUncaught(i) ==
  /\ runs[i].kind = "submit" /\ runs[i].pc = "updateUserFlag"
  /\ \E out \in Outcomes :
       IF out = "ok"
       THEN /\ userFlag' = [userFlag EXCEPT ![user] = TRUE]
            /\ runs' = Advance(i, AfterFlag(i), None,
                 <<Ev("updateUser", user, TRUE, "ok")>>)
       ELSE /\ userFlag' = userFlag
            /\ runs' = Advance(i, "done", [status |-> "rejected"],
                 <<Ev("updateUser", user, TRUE, "fail")>>)
  /\ UNCHANGED <<props, ui, storage, imageDocs>>

\* updateUserFlag(user.$id): lines 158-170.
SubmitUpdateUserFlag(i) ==
  /\ runs[i].kind = "submit" /\ runs[i].pc = "updateUserFlag"
  /\ \E out \in Outcomes :
       IF out = "ok"
       THEN /\ userFlag' = [userFlag EXCEPT ![user] = TRUE]
            /\ runs' = Advance(i, AfterFlag(i), None,
                 <<Ev("updateUser", user, TRUE, "ok")>>)
       ELSE /\ userFlag' = userFlag
            /\ runs' = Advance(i, AfterFlag(i), None,
                 <<Ev("updateUser", user, TRUE, "fail"),
                   Toast("User flag update failed")>>)
  /\ UNCHANGED <<props, ui, storage, imageDocs>>

\* uploadFile with a catch block that shows the toast and returns nothing
\* instead of throwing again: handleSubmit goes on to the post call.
SubmitUploadFileSwallowed(i) ==
  /\ runs[i].kind = "submit" /\ runs[i].pc = "uploadFile"
  /\ \E out \in Outcomes :
       IF out = "ok"
       THEN LET fid == UniqueId(i) IN
            /\ storage' = storage \cup {fid}
            /\ runs' = Advance(i, "post", [fileId |-> fid],
                 <<Ev("createFile", runs[i].file, fid, "ok")>>)
       ELSE /\ storage' = storage
            /\ runs' = Advance(i, "post", None,
                 <<Ev("createFile", runs[i].file, 0, "fail"),
                   Toast("File upload failed.")>>)
  /\ UNCHANGED <<props, ui, userFlag, imageDocs>>

\* uploadFile(value.file[0]): lines 102-105 and 173-185.  A failure is shown
\* as a toast and thrown again; handleSubmit has no catch around it.
SubmitUploadFile(i) ==
  /\ runs[i].kind = "submit" /\ runs[i].pc = "uploadFile"
  /\ \E out \in Outcomes :
       IF out = "ok"
       THEN LET fid == UniqueId(i) IN
            /\ storage' = storage \cup {fid}
            /\ runs' = Advance(i, "post", [fileId |-> fid],
                 <<Ev("createFile", runs[i].file, fid, "ok")>>)
       ELSE /\ storage' = storage
            /\ runs' = Advance(i, "done", [status |-> "rejected"],
                 <<Ev("createFile", runs[i].file, 0, "fail"),
                   Toast("File upload failed.")>>)
  /\ UNCHANGED <<props, ui, userFlag, imageDocs>>

\* The mutation handleSubmit calls and its arguments (lines 107-125).
PostCall(i) ==
  IF post # NoPost /\ action = "Update"
  THEN [op |-> "updatePost",
        args |-> [caption |-> runs[i].caption, file |-> runs[i].file,
                  postId |-> post.id,
                  imageId |-> IF runs[i].fileId # 0 THEN runs[i].fileId
                              ELSE post.imageId,
                  imageUrl |-> post.imageUrl],
        to |-> <<"/posts", post.id>>]
  ELSE [op |-> "createPost",
        args |-> [caption |-> runs[i].caption, file |-> runs[i].file,
                  userId |-> user, imageId |-> runs[i].fileId],
        to |-> <<"/">>]

\* The answers of mutateAsync: the post, a falsy value, or a rejection.
PostOutcomes == {"ok", "falsy", "reject"}

\* await updatePost(...) / await createPost(...), the toast and navigate(...):
\* lines 107-130.  A rejection leaves handleSubmit before the navigation.
SubmitPost(i) ==
  /\ runs[i].kind = "submit" /\ runs[i].pc = "post"
  /\ LET call == PostCall(i) IN
     \E out \in PostOutcomes :
       runs' = Advance(i, "done",
         IF out = "reject" THEN [status |-> "rejected"] ELSE None,
         <<Ev(call.op, call.args, 0, out)>>
           \o (IF out = "falsy" THEN <<Toast("post failed. Please try again.")>>
               ELSE <<>>)
           \o (IF out = "reject" THEN <<>>
               ELSE <<Ev("navigate", call.to, 0, "ok")>>))
  /\ UNCHANGED <<props, ui, db>>

\* The form as opened.  Users are interchangeable, so the logged-in user is
\* the first; the last user created the post that already exists.  PostForm
\* renders <FileUploader fieldChange=... mediaUrl=... /> (line 204), so the
\* current component gets userId undefined from it; a parent that follows the
\* prop type of FileUploader.tsx line 21 passes the user's id.
InitOf(v) ==
  /\ variant = v
  /\ user = 1
  /\ \E p \in {NoPost, OldPost} :
       /\ post = p
       /\ action = IF p = NoPost THEN "Create" ELSE "Update"
  /\ userIdProp \in IF v = "current" THEN {Undefined, user} ELSE {Undefined}
  /\ file = <<>>
  /\ fileUrl = post.imageUrl
  /\ formFile = <<>>
  /\ storage = {OldId}
  /\ userFlag = [u \in Users |-> FALSE]
  /\ imageDocs = [d \in {OldId} |->
       [imageId |-> OldId, imageUrl |-> OldUrl, flag |-> FALSE, creator |-> NumUsers]]
  /\ runs = [i \in RunIds |-> IdleRun]

\* PostForm with the current FileUploader.
Init == InitOf("current")

Next ==
  \E i \in RunIds :
    \/ DropStart(i)
    \/ DropCreateFile(i)
    \/ DropCreateDocument(i)
    \/ DropInfer(i)
    \/ DropUpdateUser(i)
    \/ DropUpdateImage(i)
    \/ SubmitStart(i)
    \/ SubmitCheck(i)
    \/ SubmitUpdateUserFlag(i)
    \/ SubmitUploadFile(i)
    \/ SubmitPost(i)

Spec == Init /\ [][Next]_vars

\* PostForm with either FileUploader: the current one or the earlier variant.
InitBoth == \E v \in {"current", "earlier"} : InitOf(v)

NextBoth ==
  \E i \in RunIds :
    \/ DropStart(i)
    \/ DropCreateFile(i)
    \/ DropCreateDocument(i)
    \/ DropInfer(i)
    \/ DropUpdateUser(i)
    \/ DropUpdateImage(i)
    \/ OldDropStart(i)
    \/ OldDropCreateFile(i)
    \/ OldDropInfer(i)
    \/ OldListUsers(i)
    \/ OldUpdateUser(i)
    \/ OldListImages(i)
    \/ OldUpdateImage(i)
    \/ SubmitStart(i)
    \/ SubmitCheck(i)
    \/ SubmitUpdateUserFlag(i)
    \/ SubmitUploadFile(i)
    \/ SubmitPost(i)

SpecBoth == InitBoth /\ [][NextBoth]_vars

\* ------------------------------------------------------ reading the logs
Log(i) == runs[i].log
Where(i, op) == {k \in 1..Len(Log(i)) : Log(i)[k].op = op}
Has(i, op) == \E k \in 1..Len(Log(i)) : Log(i)[k].op = op
\* The (first) event of invocation i made by call op; used under Has(i, op).
The(i, op) == Head(SelectSeq(Log(i), LAMBDA e : e.op = op))

IsDrop(i) == runs[i].kind \in {"drop", "oldDrop"}
IsSubmit(i) == runs[i].kind = "submit"

\* A first prediction with confidence strictly above 50%.
HighConfidence(e) ==
  /\ e.op = "infer" /\ e.res = "ok"
  /\ e.val \notin {NoPredictions, <<>>}
  /\ e.val[1] > 50

\* An answer of the moderation API with a match of type "drug".
DrugMatch(e) ==
  /\ e.op = "check" /\ e.res = "ok" /\ e.val # NoMatches
  /\ \E k \in 1..Len(e.val) : e.val[k] = "drug"

FlagWriteOps == {"updateUser", "updateImage"}
\* Invocation i has a flag write in flight or answered.
FlagWriteIssued(i) ==
  \/ IsDrop(i) /\ runs[i].pc \in {"updateUser", "updateImage"}
  \/ IsSubmit(i) /\ runs[i].pc = "updateUserFlag"
  \/ \E op \in FlagWriteOps : Has(i, op)

\* ------------------------------------------------------------------- C1
\* C1 (flag soundness, current FileUploader with handleSubmit): a user record
\* is flagged only if that user dropped an image whose first prediction was
\* above 50% or submitted a caption the moderation API matched as "drug"; an
\* image record is flagged only if the inference call for that image's URL
\* answered above 50%; a drop issues no flag write unless its predictions
\* exist, are non-empty and start with a confidence above 50%.
C1_FlagSoundness ==
  variant = "current" =>
    /\ \A u \in Users : userFlag[u] =>
         /\ u = user
         /\ \E i \in RunIds :
              \/ runs[i].kind = "drop" /\ Has(i, "infer")
                   /\ HighConfidence(The(i, "infer"))
              \/ IsSubmit(i) /\ Has(i, "check") /\ DrugMatch(The(i, "check"))
    /\ \A d \in DOMAIN imageDocs : imageDocs[d].flag =>
         \E i \in RunIds :
           /\ runs[i].kind = "drop" /\ runs[i].docId = d /\ Has(i, "infer")
           /\ HighConfidence(The(i, "infer"))
           /\ The(i, "infer").arg = imageDocs[d].imageUrl
    /\ \A i \in RunIds : runs[i].kind = "drop" /\ FlagWriteIssued(i) =>
         Has(i, "infer") /\ HighConfidence(The(i, "infer"))

\* A drop has flagged its user and its image, and a submit has flagged too.
C1_Witness ==
  /\ variant = "current"
  /\ \E i, j \in RunIds :
       /\ runs[i].kind = "drop" /\ Has(i, "updateImage")
       /\ The(i, "updateImage").res = "ok"
       /\ imageDocs[runs[i].docId].flag /\ userFlag[user]
       /\ IsSubmit(j) /\ Has(j, "updateUser") /\ The(j, "updateUser").res = "ok"

\* ------------------------------------------------------------------- C2
\* Every external call of invocation i so far was answered successfully.
AllAnswered(i) == \A k \in 1..Len(Log(i)) : Log(i)[k].res # "fail"

\* C2 (flag completeness, FileUploader as PostForm renders it): when a drop
\* has finished, every service answered successfully and the first
\* prediction was above 50%, the user's record and the image record of this
\* drop are flagged.
C2_FlagCompleteness ==
  \A i \in RunIds :
    ( /\ variant = "current" /\ userIdProp = Undefined
      /\ runs[i].kind = "drop" /\ Finished(i)
      /\ AllAnswered(i)
      /\ Has(i, "infer") /\ HighConfidence(The(i, "infer")) )
    => userFlag[user] /\ imageDocs[runs[i].docId].flag

\* ------------------------------------------------------------------- C3
\* Invocation i has its inference request in flight or answered.
InferIssued(i) == IsDrop(i) /\ (runs[i].pc = "infer" \/ Has(i, "infer"))

\* C3 (upload -> infer -> patch, both FileUploader variants): an inference
\* request is issued only after this drop's upload succeeded and carries the
\* view URL of the file id that upload returned; a flag write is issued only
\* after the inference answer; after a failed upload the drop issues neither.
C3_RequestOrdering ==
  \A i \in RunIds : IsDrop(i) =>
    /\ InferIssued(i) =>
         /\ Has(i, "createFile") /\ The(i, "createFile").res = "ok"
         /\ The(i, "createFile").arg = runs[i].file
         /\ InferImage(i) = StorageViewUrl(The(i, "createFile").val)
    /\ Has(i, "infer") =>
         /\ The(i, "infer").arg = StorageViewUrl(The(i, "createFile").val)
         /\ \A k \in Where(i, "createFile"), m \in Where(i, "infer") : k < m
    /\ FlagWriteIssued(i) => Has(i, "infer") /\ The(i, "infer").res = "ok"
    /\ \A op \in FlagWriteOps : \A k \in Where(i, "infer"), m \in Where(i, op) : k < m
    /\ (Has(i, "createFile") /\ The(i, "createFile").res = "fail") =>
         ~InferIssued(i) /\ ~FlagWriteIssued(i) /\ Finished(i)

\* A drop whose upload, inference and flag writes all went through, in order.
C3_Witness ==
  \E i \in RunIds :
    /\ IsDrop(i) /\ Finished(i)
    /\ Has(i, "createFile") /\ Has(i, "infer") /\ Has(i, "updateImage")
    /\ The(i, "updateImage").res = "ok"
\* ------------------------------------------------------------------- C4
PostOps == {"createPost", "updatePost"}
\* Invocation i has createPost or updatePost in flight or answered.
PostIssued(i) ==
  IsSubmit(i) /\ (runs[i].pc = "post" \/ \E op \in PostOps : Has(i, op))

\* C4 (scan before post, Create and Update): whenever handleSubmit has
\* invoked createPost or updatePost, the moderation request for the submitted
\* caption has already completed, with an answer or with an error.
C4_ScanBeforePost ==
  \A i \in RunIds : PostIssued(i) =>
    /\ Has(i, "check")
    /\ The(i, "check").arg = runs[i].caption
    /\ The(i, "check").res \in {"ok", "fail"}
    /\ \A op \in PostOps : \A k \in Where(i, "check"), m \in Where(i, op) : k < m

\* A post was updated after its caption's scan had ended in an error.
C4_Witness ==
  \E i \in RunIds :
    /\ IsSubmit(i) /\ Has(i, "updatePost") /\ Has(i, "check")
    /\ The(i, "check").res = "fail"

\* ------------------------------------------------------------------- C5
\* The moderation request failed, or its answer has no usable drug.matches.
CheckFailed(e) == e.op = "check" /\ (e.res = "fail" \/ e.val = NoMatches)

\* The event that follows the (first) event of call op in invocation i.
After(i, op) ==
  LET k == CHOOSE n \in Where(i, op) : \A m \in Where(i, op) : n <= m
  IN IF k < Len(Log(i)) THEN Log(i)[k + 1] ELSE Ev("(nothing)", 0, 0, "")

\* C5 (assume false on failure): after a failed moderation request
\* checkForProhibitedContent has returned false and shown a toast, the run
\* issues no user-flag write and goes on to the upload (when a file is
\* selected) and the post call as an unflagged run does.
C5_AssumeFalseOnFailure ==
  \A i \in RunIds : (IsSubmit(i) /\ Has(i, "check") /\ CheckFailed(The(i, "check"))) =>
    /\ runs[i].flagged = FALSE
    /\ After(i, "check") = Toast("Content check failed")
    /\ ~Has(i, "updateUser") /\ runs[i].pc # "updateUserFlag"
    /\ runs[i].file # 0 => runs[i].pc = "uploadFile" \/ Has(i, "createFile")
    /\ runs[i].file = 0 => PostIssued(i)
    /\ (Has(i, "createFile") /\ The(i, "createFile").res = "ok") => PostIssued(i)

\* A submit whose scan failed has uploaded its file and created the post.
C5_Witness ==
  \E i \in RunIds :
    /\ IsSubmit(i) /\ Finished(i) /\ Has(i, "check") /\ CheckFailed(The(i, "check"))
    /\ Has(i, "createFile") /\ Has(i, "createPost")
    /\ The(i, "createPost").res = "ok"

\* ------------------------------------------------------------------- C6
CallOps == {"createFile", "createDocument", "infer", "listUsers", "listImages",
            "updateUser", "updateImage", "check", "createPost", "updatePost"}
\* A call that failed: a rejected request, an exception of the SDK, a
\* rejected or falsy mutation, an answer the caller cannot read.
FailedCall(e) ==
  /\ e.op \in CallOps
  /\ e.res \in {"fail", "throw", "reject", "falsy"} \/ CheckFailed(e)
\* The failure at position k of invocation i is logged or shown as a toast.
Reported(i, k) ==
  k < Len(Log(i)) /\ Log(i)[k + 1].op \in {"console.error", "toast"}
NoRetry(i) == \A op \in CallOps : Cardinality(Where(i, op)) <= 1

\* C6 as stated: every failed call of onDrop and handleSubmit is caught and
\* logged or shown as a toast, no handler ends with a rejected promise, and
\* no call is issued twice.  (The post mutations live outside these files; a
\* run in which one of them rejected is left aside here.)
C6_ErrorsCaught ==
  \A i \in RunIds :
    (\A op \in PostOps : Has(i, op) => The(i, op).res # "reject") =>
      /\ runs[i].status # "rejected"
      /\ \A k \in 1..Len(Log(i)) : FailedCall(Log(i)[k]) => Reported(i, k)
      /\ NoRetry(i)

\* The calls whose failure handleSubmit lets through: uploadFile, which shows
\* a toast and throws again, and a rejected createPost / updatePost.
LetThrough(e) ==
  \/ e.op = "createFile" /\ e.res = "fail"
  \/ e.op \in PostOps /\ e.res = "reject"

\* C6 amended: onDrop (both variants) never ends with a rejected promise and
\* logs every failed call; handleSubmit shows a toast for a failed scan, a
\* failed flag write, a failed upload and a falsy post result, and ends with a
\* rejected promise exactly when uploadFile failed or the post mutation
\* rejected; a failed call ends the handler or is skipped, never re-issued.
C6_ErrorsCaughtExceptRethrow ==
  \A i \in RunIds :
    /\ IsDrop(i) =>
         /\ runs[i].status # "rejected"
         /\ \A k \in 1..Len(Log(i)) : FailedCall(Log(i)[k]) =>
              /\ Reported(i, k) /\ Log(i)[k + 1].op = "console.error"
              /\ Finished(i) /\ Len(Log(i)) = k + 1
    /\ IsSubmit(i) =>
         /\ \A k \in 1..Len(Log(i)) :
              /\ (FailedCall(Log(i)[k]) /\ Log(i)[k].op \notin PostOps) =>
                   Reported(i, k) /\ Log(i)[k + 1].op = "toast"
              /\ (Log(i)[k].op \in PostOps /\ Log(i)[k].res = "falsy") =>
                   Reported(i, k) /\ Log(i)[k + 1].op = "toast"
              /\ LetThrough(Log(i)[k]) => runs[i].status = "rejected" /\ Finished(i)
         /\ runs[i].status = "rejected" =>
              \E k \in 1..Len(Log(i)) : LetThrough(Log(i)[k])
    /\ NoRetry(i)

\* One drop ended in its catch block, and one submit ended with the
\* rejection of a failed upload.
C6_Witness ==
  \E i, j \in RunIds :
    /\ IsDrop(i) /\ Finished(i) /\ runs[i].status = "returned"
    /\ \E k \in 1..Len(Log(i)) : FailedCall(Log(i)[k])
    /\ IsSubmit(j) /\ runs[j].status = "rejected"
    /\ Has(j, "createFile") /\ The(j, "createFile").res = "fail"
\* ------------------------------------------------------------------- C7
\* C7 (earlier FileUploader): a drop above 50% flags at most one user and one
\* image record, and they are the record of the user who dropped the file
\* and the record of the image this drop uploaded.
C7_FlagsTheTriggeringRecords ==
  \A i \in RunIds : runs[i].kind = "oldDrop" =>
    /\ Cardinality(Where(i, "updateUser")) <= 1
    /\ Cardinality(Where(i, "updateImage")) <= 1
    /\ Has(i, "updateUser") => The(i, "updateUser").arg = user
    /\ Has(i, "updateImage") =>
         imageDocs[The(i, "updateImage").arg].imageId = runs[i].fileId

\* ------------------------------------------------------------------- C8
\* The image document invocation i created (under Has(i, "createDocument")).
OwnDoc(i) == The(i, "createDocument").arg

\* C8 (overlapping drops, current FileUploader): in every interleaving each
\* drop uploads the file it was given, sends the inference request with the
\* URL of the file it uploaded itself and writes the image flag of the
\* document it created itself; the flag of a drop's image record is what
\* that drop alone decides, as when the drops run one after the other.
C8_DropsDoNotInterfere ==
  \A i \in RunIds : runs[i].kind = "drop" =>
    /\ Has(i, "createFile") => The(i, "createFile").arg = i
    /\ InferIssued(i) => InferImage(i) = StorageViewUrl(The(i, "createFile").val)
    /\ Has(i, "infer") => The(i, "infer").arg = StorageViewUrl(The(i, "createFile").val)
    /\ (Has(i, "createDocument") /\ The(i, "createDocument").res = "ok") =>
         /\ imageDocs[OwnDoc(i)].imageId = The(i, "createFile").val
         /\ \A j \in RunIds \ {i} : Has(j, "createDocument") => OwnDoc(j) # OwnDoc(i)
         /\ runs[i].pc = "updateImage" => FlagImageArg(i) = OwnDoc(i)
         /\ Has(i, "updateImage") => The(i, "updateImage").arg = OwnDoc(i)
         /\ Finished(i) =>
              imageDocs[OwnDoc(i)].flag =
                (Has(i, "updateImage") /\ The(i, "updateImage").res = "ok")

\* The second drop has run to its image-flag write while the first, started
\* before it, still waits for its inference answer with its document unflagged.
C8_Witness ==
  \E i, j \in RunIds :
    /\ i < j /\ runs[i].kind = "drop" /\ runs[j].kind = "drop"
    /\ runs[i].pc = "infer" /\ Finished(j)
    /\ Has(j, "updateImage") /\ The(j, "updateImage").res = "ok"
    /\ imageDocs[OwnDoc(j)].flag /\ ~imageDocs[OwnDoc(i)].flag

\* ------------------------------------------------------------------- C9
\* C9 (flags are monotone, both FileUploader variants and handleSubmit):
\* every flag write carries true, a created image document is the only
\* place of flag = false, and no step takes a record away or turns a flag
\* that is true back to false.
C9_FlagsMonotone ==
  /\ [](\A i \in RunIds : \A k \in 1..Len(Log(i)) :
          /\ Log(i)[k].op \in FlagWriteOps => Log(i)[k].val = TRUE
          /\ Log(i)[k].op = "createDocument" => Log(i)[k].val.flag = FALSE)
  /\ [][ /\ \A u \in Users : userFlag[u] => userFlag'[u]
         /\ \A d \in DOMAIN imageDocs :
              /\ d \in DOMAIN imageDocs'
              /\ imageDocs[d].flag => imageDocs'[d].flag
         /\ \A d \in DOMAIN imageDocs' \ DOMAIN imageDocs : ~imageDocs'[d].flag
       ]_vars

\* The user's record, already flagged by one handler, is written again by a
\* second one and stays flagged.
C9_Witness ==
  \E i, j \in RunIds :
    /\ i # j /\ userFlag[user]
    /\ Has(i, "updateUser") /\ The(i, "updateUser").res = "ok"
    /\ Has(j, "updateUser") /\ The(j, "updateUser").res = "ok"
    /\ The(i, "updateUser").arg = user /\ The(j, "updateUser").arg = user

\* ------------------------------------------------------------------ C10
\* What handleSubmit was given: the form value (the props are the form's).
SubmitInput(i) == [caption |-> runs[i].caption, file |-> runs[i].file]
ResultOf(i, ops) ==
  IF \E op \in ops : Has(i, op)
  THEN The(i, CHOOSE op \in ops : Has(i, op)).res ELSE "not called"
\* The answers of the storage and post services to invocation i.
UploadAnswer(i) == ResultOf(i, {"createFile"})
PostAnswer(i) == ResultOf(i, PostOps)

\* The events of invocation i that are not part of the moderation step.
IsTail(e) ==
  /\ e.op \notin {"check", "updateUser"}
  /\ e \notin {Toast("Content check failed"), Toast("User flag update failed")}
PostTail(i) == SelectSeq(Log(i), IsTail)

\* What a submit of this form value does after the moderation step, given
\* the answers of the storage and post services and nothing else: the upload
\* of the selected file, the createPost / updatePost call with its
\* arguments, and the navigation.
UploadPart(i) ==
  IF runs[i].file = 0 THEN <<>>
  ELSE IF UploadAnswer(i) = "ok"
    THEN <<Ev("createFile", runs[i].file, runs[i].fileId, "ok")>>
    ELSE <<Ev("createFile", runs[i].file, 0, UploadAnswer(i)),
           Toast("File upload failed.")>>
PostPart(i) ==
  LET uploaded == IF runs[i].file = 0 THEN 0 ELSE runs[i].fileId
      update == action = "Update" /\ post # NoPost
      call ==
        IF update
        THEN Ev("updatePost",
                [caption |-> runs[i].caption, file |-> runs[i].file,
                 postId |-> post.id,
                 imageId |-> IF uploaded # 0 THEN uploaded ELSE post.imageId,
                 imageUrl |-> post.imageUrl], 0, PostAnswer(i))
        ELSE Ev("createPost",
                [caption |-> runs[i].caption, file |-> runs[i].file,
                 userId |-> user, imageId |-> uploaded], 0, PostAnswer(i))
  IN <<call>>
       \o (IF PostAnswer(i) = "falsy"
           THEN <<Toast("post failed. Please try again.")>> ELSE <<>>)
       \o (IF PostAnswer(i) = "reject" THEN <<>>
           ELSE <<Ev("navigate", IF update THEN <<"/posts", post.id>> ELSE <<"/">>,
                     0, "ok")>>)
UngatedTail(i) ==
  UploadPart(i) \o (IF runs[i].file # 0 /\ UploadAnswer(i) # "ok" THEN <<>>
                    ELSE PostPart(i))
SameEvents(s, t) ==
  /\ Len(s) = Len(t)
  /\ \A k \in 1..Len(s) : s[k].op = t[k].op /\ s[k] = t[k]

\* C10 (moderation does not gate posting): what a finished submit uploaded,
\* the createPost / updatePost call it made with its arguments and its
\* navigation are fixed by the form value, the props and the answers of the
\* storage and post services, whatever checkForProhibitedContent returned;
\* a run whose check returned true made one flag write, true on the
\* submitting user's record, and a run whose check returned false made none.
C10_ModerationDoesNotGate ==
  \A i \in RunIds : (IsSubmit(i) /\ Finished(i)) =>
    /\ SameEvents(PostTail(i), UngatedTail(i))
    /\ \A j \in RunIds :
         ( /\ IsSubmit(j) /\ Finished(j) /\ SubmitInput(i) = SubmitInput(j)
           /\ UploadAnswer(i) = UploadAnswer(j) /\ PostAnswer(i) = PostAnswer(j)
           /\ UploadAnswer(i) = "not called" )
         => SameEvents(PostTail(i), PostTail(j))
    /\ Cardinality(Where(i, "updateUser")) = IF runs[i].flagged THEN 1 ELSE 0
    /\ Has(i, "updateUser") =>
         The(i, "updateUser").arg = user /\ The(i, "updateUser").val = TRUE
    /\ ~Has(i, "updateImage")

\* Two submits of the same form value, one flagged and one not, have both
\* made the post call and navigated.
C10_Witness ==
  \E a, b \in RunIds :
    /\ IsSubmit(a) /\ IsSubmit(b) /\ Finished(a) /\ Finished(b)
    /\ runs[a].flagged /\ ~runs[b].flagged
    /\ SubmitInput(a) = SubmitInput(b)
    /\ PostAnswer(a) = "ok" /\ PostAnswer(b) = "ok"
    /\ Has(a, "navigate") /\ Has(b, "navigate")
    /\ Has(a, "updateUser")

\* ------------------------------------------------------------------ C11
\* The upload of invocation i's selected file was refused by the storage.
UploadFailed(i) ==
  IsSubmit(i) /\ Has(i, "createFile") /\ The(i, "createFile").res = "fail"

\* C11 (upload failure aborts the submission, nothing is rolled back): when
\* uploadFile fails in handleSubmit a file was selected, the toast "File
\* upload failed." follows the failed call and is the run's last event, the
\* run has ended with the error thrown out of handleSubmit, neither
\* createPost nor updatePost is invoked, nothing navigates, and a user-flag
\* write the run made before the upload is still in place.  When no file is
\* selected uploadFile is not called; updatePost always receives the post's
\* existing imageUrl and, when no file is selected, its existing imageId.
C11_UploadFailureAborts ==
  \A i \in RunIds : IsSubmit(i) =>
    /\ UploadFailed(i) =>
         /\ runs[i].file # 0
         /\ Len(Log(i)) >= 2
         /\ Log(i)[Len(Log(i)) - 1] = Ev("createFile", runs[i].file, 0, "fail")
         /\ Log(i)[Len(Log(i))] = Toast("File upload failed.")
         /\ Finished(i) /\ runs[i].status = "rejected"
         /\ ~PostIssued(i)
         /\ ~Has(i, "navigate")
         /\ (Has(i, "updateUser") /\ The(i, "updateUser").res = "ok")
              => userFlag[The(i, "updateUser").arg] = TRUE
    /\ runs[i].file = 0 =>
         /\ ~Has(i, "createFile") /\ runs[i].pc # "uploadFile"
         /\ runs[i].fileId = 0
    /\ Has(i, "updatePost") =>
         /\ The(i, "updatePost").arg.imageUrl = post.imageUrl
         /\ runs[i].file = 0 => The(i, "updatePost").arg.imageId = post.imageId

\* A flagged submit wrote the user's flag, then its upload failed: the run
\* ended with the error, made no post call, and the flag is still set.
C11_Witness ==
  \E i \in RunIds :
    /\ UploadFailed(i) /\ runs[i].flagged
    /\ Has(i, "updateUser") /\ The(i, "updateUser").res = "ok"
    /\ runs[i].status = "rejected"
    /\ userFlag[user] = TRUE

\* An Update submit without a selected file has called updatePost.
C11_WitnessNoFile ==
  \E i \in RunIds :
    /\ IsSubmit(i) /\ runs[i].file = 0 /\ Has(i, "updatePost")

====
